---------------------------- MODULE Spec2Model ----------------------------
(***************************************************************************)
(* Retrieval core of the Satbayev mentor bot (rag_engine.py): the Chunker  *)
(* (_split_into_chunks), the ingestion pipeline (load_knowledge_base), the *)
(* all-chunks cache (_get_all_docs) and the hybrid search (search with     *)
(* _keyword_search and _text_match_search).                                *)
(*                                                                         *)
(* Texts are sequences of one-character strings.  Indices are 0-based as   *)
(* in Python; a slice [i, j) of t is SubSeq(t, i + 1, j).  Distances are   *)
(* counted in tenths (0.1 is 1, 0.5 is 5).                                 *)
(***************************************************************************)
EXTENDS Integers, Sequences, FiniteSets, TLC

VARIABLES
    \* ---- RAGEngine and its Vector Index
    collection,   \* self.collection: the indexed chunks, in insertion order
    cache,        \* self._all_docs_cache: None or a snapshot of the chunks
    ret,          \* the call in progress of being returned to the caller
    \* ---- one run of _split_into_chunks
    text,         \* the document text
    size,         \* CHUNK_SIZE of the configuration
    overlap,      \* CHUNK_OVERLAP of the configuration
    start,        \* the cursor
    chunk_id,     \* the next ordinal
    chunks,       \* the chunks emitted so far
    spans,        \* history: the span [start, end) of every iteration
    pc            \* "loop" while the while-loop runs, "done" after return

vars == <<collection, cache, ret, text, size, overlap, start, chunk_id,
          chunks, spans, pc>>

engineVars == <<collection, cache, ret>>
chunkerVars == <<text, size, overlap, start, chunk_id, chunks, spans, pc>>

\* self._all_docs_cache: None, or the documents collection.get returned.
None == [is_none |-> TRUE, docs |-> <<>>]
Cached(docs) == [is_none |-> FALSE, docs |-> docs]

Max(a, b) == IF a >= b THEN a ELSE b
Min(a, b) == IF a <= b THEN a ELSE b

(***************************************************************************)
(* Strings                                                                 *)
(***************************************************************************)

\* The characters str.strip() removes, among those of the model's alphabet.
Whitespace == {" ", "\n"}

RECURSIVE LStrip(_)
LStrip(s) ==
    IF s = <<>> THEN <<>>
    ELSE IF Head(s) \in Whitespace THEN LStrip(Tail(s)) ELSE s

RECURSIVE RStrip(_)
RStrip(s) ==
    IF s = <<>> THEN <<>>
    ELSE IF s[Len(s)] \in Whitespace THEN RStrip(SubSeq(s, 1, Len(s) - 1))
    ELSE s

Strip(s) == LStrip(RStrip(s))

\* Python's treatment of a slice bound: a negative bound counts from the
\* end, and the result is clipped to 0 .. n.
Clamp(i, n) == IF i < 0 THEN Max(i + n, 0) ELSE Min(i, n)

\* t[i:j]
Slice(t, i, j) ==
    LET s == Clamp(i, Len(t))
        e == Clamp(j, Len(t))
    IN  IF s >= e THEN <<>> ELSE SubSeq(t, s + 1, e)

\* t.rfind(sub, i, j): the highest index at which sub occurs wholly inside
\* t[i:j], or -1.
RFind(t, sub, i, j) ==
    LET s == Clamp(i, Len(t))
        e == Clamp(j, Len(t))
        hits == {k \in s .. (e - Len(sub)) :
                    SubSeq(t, k + 1, k + Len(sub)) = sub}
    IN  IF hits = {} THEN -1
        ELSE CHOOSE k \in hits : \A m \in hits : m <= k

\* sub in t
Contains(t, sub) ==
    \E k \in 0 .. (Len(t) - Len(sub)) : SubSeq(t, k + 1, k + Len(sub)) = sub

(***************************************************************************)
(* _split_into_chunks                                                      *)
(***************************************************************************)

ParagraphBreak == <<"\n", "\n">>
Separators == << <<".", " ">>, <<".", "\n">>, <<"!", "\n">>, <<"?", "\n">> >>

\* A boundary rule that accepts any separator after the span's start.
MidpointAtStart(st, sz) == st

\* The boundary a separator must lie after for the span to be snapped to
\* it: start + CHUNK_SIZE // 2.
Midpoint(st, sz) == st + (sz \div 2)

\* The for-loop over the sentence separators, from the i-th on: the end
\* after the first separator whose last occurrence lies after the midpoint,
\* or the unchanged end.
RECURSIVE SentenceEnd(_, _, _, _, _)
SentenceEnd(t, st, en, sz, i) ==
    IF i > Len(Separators) THEN en
    ELSE LET sep_pos == RFind(t, Separators[i], st, en)
         IN  IF sep_pos > Midpoint(st, sz)
             THEN sep_pos + Len(Separators[i])
             ELSE SentenceEnd(t, st, en, sz, i + 1)

\* The end of the span that starts at st: start + CHUNK_SIZE, snapped back
\* to a paragraph or sentence boundary when it falls before the text's end.
SpanEnd(t, st, sz) ==
    LET en == st + sz
    IN  IF en < Len(t)
        THEN LET newline_pos == RFind(t, ParagraphBreak, st, en)
             IN  IF newline_pos > Midpoint(st, sz)
                 THEN newline_pos + 2
                 ELSE SentenceEnd(t, st, en, sz, 1)
        ELSE en

\* A cursor rule that skips the character at en.
NextStartPastEnd(t, en, ov) == IF en < Len(t) THEN en + 1 ELSE en

\* A cursor rule that resumes at en, without overlap.
NextStartNoOverlap(t, en, ov) == en

\* The cursor after a span ending at en: end - CHUNK_OVERLAP if end <
\* len(text) else end.
NextStart(t, en, ov) == IF en < Len(t) THEN en - ov ELSE en

\* The chunk record appended for a non-empty chunk text.
Chunk(chunk_text, source, id) ==
    [text |-> chunk_text, source |-> source, chunk_id |-> <<source, id>>]

\* _split_into_chunks run to completion from cursor st with ordinal id,
\* appending to acc (the loop of lines 141-166 as a function).
RECURSIVE SplitFrom(_, _, _, _, _, _, _)
SplitFrom(t, source, st, id, acc, sz, ov) ==
    IF st >= Len(t) THEN acc
    ELSE LET en == SpanEnd(t, st, sz)
             chunk_text == Strip(Slice(t, st, en))
         IN  SplitFrom(t, source, NextStart(t, en, ov),
                       IF chunk_text # <<>> THEN id + 1 ELSE id,
                       IF chunk_text # <<>>
                       THEN Append(acc, Chunk(chunk_text, source, id))
                       ELSE acc,
                       sz, ov)

(***************************************************************************)
(* Configuration and the knowledge base of the engine runs                 *)
(***************************************************************************)

\* CHUNK_SIZE and CHUNK_OVERLAP of the configuration the engine runs with
\* (config.py sets 1500 and 300; the runs here use short documents and a
\* chunk size to match), and the length of the deduplication key, text[:100],
\* scaled alike.
EngineChunkSize == 4
EngineChunkOverlap == 1
KeyLen == 2

\* TOP_K_RESULTS, the floor of max(top_k, 10), batch_size, and the fixed
\* distances of the exact-match and keyword signals, in tenths.
TOP_K_RESULTS == 8
MIN_RESULTS == 10
BATCH_SIZE == 100
EXACT_DISTANCE == 1
KEYWORD_DISTANCE == 5

_split_into_chunks(t, source) ==
    SplitFrom(t, source, 0, 0, <<>>, EngineChunkSize, EngineChunkOverlap)

\* str.lower() on the model's characters.
LowerChar(c) == CASE c = "K" -> "k" [] c = "A" -> "a" [] OTHER -> c
Lower(s) == [i \in DOMAIN s |-> LowerChar(s[i])]

\* KEYWORD_FILE_MAP, cut down to three keywords, two of them for one file.
KEYWORD_FILE_MAP ==
    (<<"k">> :> "02.md") @@ (<<"g">> :> "02.md") @@ (<<"m">> :> "01.md")

\* The names os.listdir may return, in the order sorted() puts them.
FileOrder == <<"01.md", "02.md", "notes.txt">>
FileNames == {FileOrder[i] : i \in DOMAIN FileOrder}
EndsWithMd(f) == f \in {"01.md", "02.md"}

\* What a name of the directory holds: nothing (no such file), a file that
\* cannot be read or decoded, or a text.
Absent == [kind |-> "absent", content |-> <<>>]
Unreadable == [kind |-> "unreadable", content |-> <<>>]
File(content) == [kind |-> "file", content |-> content]

BigDoc ==
    <<"e", "a", "a",  "a", "c", "a",  "a", "d", "a",  "b", "a", "b",
      "b", "c", "b",  "b", "d", "b",  "c", "a", "c",  "c", "b", "c",
      "d", "K", "b",  "e", "k", "b",  "a">>
DocTexts ==
    { BigDoc,
      <<"a", "b", " ", "k">>,
      <<"d", "c", "k", "a", "b", ".", "k">>,
      <<" ", "\n">> }

\* The most chunks a directory of the runs yields.
MaxIndexed == 12

Readable(dir, f) == dir[f].kind = "file"
DirChunks(dir) ==
    LET n(f) == IF EndsWithMd(f) /\ Readable(dir, f)
                THEN Len(_split_into_chunks(dir[f].content, f)) ELSE 0
    IN  n("01.md") + n("02.md")
Directories ==
    {dir \in [FileNames -> {Absent, Unreadable}
                            \cup {File(t) : t \in DocTexts}] :
        /\ DirChunks(dir) <= MaxIndexed
        /\ dir["notes.txt"] \in {Absent, File(<<"a", "b", " ", "k">>)}}
NoDirectory == [f \in FileNames |-> Absent]

Queries == {<<"k">>, <<"K", "b">>, <<"c">>}
TopKs == {1, TOP_K_RESULTS, MIN_RESULTS + 1}

\* The native distances the index may report, in tenths.
NativeDistances == {0, 1, 3, 5, 7}

(***************************************************************************)
(* load_knowledge_base                                                     *)
(***************************************************************************)

\* sorted([f for f in os.listdir(...) if f.endswith(".md")])
MdFiles(dir) ==
    SelectSeq(FileOrder, LAMBDA f : dir[f].kind # "absent" /\ EndsWithMd(f))

\* A loop that stops at the first file that cannot be read.
RECURSIVE ReadFilesAbort(_, _, _, _)
ReadFilesAbort(dir, md_files, i, acc) ==
    IF i > Len(md_files) THEN acc
    ELSE IF Readable(dir, md_files[i])
    THEN ReadFilesAbort(dir, md_files, i + 1,
            [all_chunks |-> acc.all_chunks
                            \o _split_into_chunks(dir[md_files[i]].content,
                                                  md_files[i]),
             files_processed |-> acc.files_processed + 1])
    ELSE acc

\* The for-loop over md_files from the i-th file on (lines 195-207):
\* all_chunks and files_processed; a file that cannot be read is skipped.
RECURSIVE ReadFiles(_, _, _, _)
ReadFiles(dir, md_files, i, acc) ==
    IF i > Len(md_files) THEN acc
    ELSE IF Readable(dir, md_files[i])
    THEN ReadFiles(dir, md_files, i + 1,
            [all_chunks |-> acc.all_chunks
                            \o _split_into_chunks(dir[md_files[i]].content,
                                                  md_files[i]),
             files_processed |-> acc.files_processed + 1])
    ELSE ReadFiles(dir, md_files, i + 1, acc)

\* The batched collection.add (lines 213-220), from offset i on.
RECURSIVE AddBatches(_, _, _)
AddBatches(coll, all_chunks, i) ==
    IF i >= Len(all_chunks) THEN coll
    ELSE AddBatches(coll \o Slice(all_chunks, i, i + BATCH_SIZE),
                    all_chunks, i + BATCH_SIZE)

\* The value of ret between calls, and the fields a call fills in.
RetIdle ==
    [op |-> "idle", status |-> "ok", query |-> <<>>, top_k |-> 0,
     dir |-> NoDirectory, vector_results |-> <<>>, keyword_results |-> <<>>,
     text_results |-> <<>>, out |-> <<>>, files |-> 0, chunks |-> 0]

LoadKnowledgeBase(dir) ==
    /\ ret.op = "idle"
    /\ LET md_files == MdFiles(dir)
           read == ReadFiles(dir, md_files, 1,
                             [all_chunks |-> <<>>, files_processed |-> 0])
       IN  IF md_files = <<>>
           THEN /\ collection' = <<>>
                /\ cache' = cache
                /\ ret' = [RetIdle EXCEPT !.op = "load", !.dir = dir]
           ELSE /\ collection' = AddBatches(<<>>, read.all_chunks, 0)
                /\ cache' = None
                /\ ret' = [RetIdle EXCEPT !.op = "load", !.dir = dir,
                                          !.files = read.files_processed,
                                          !.chunks = Len(read.all_chunks)]
    /\ UNCHANGED chunkerVars

(***************************************************************************)
(* search                                                                  *)
(***************************************************************************)

\* What the Vector Index of count chunks does in one call of search:
\* whether collection.query and collection.get raise, and, when the query
\* answers, the order of similarity (the chunks from offset on, forwards or
\* backwards) and the distance of the nearest hit and of the others.
Backends(count) ==
    {b \in [query_raises : BOOLEAN, get_raises : BOOLEAN,
            offset : 0 .. Max(count - 1, 0), backwards : BOOLEAN,
            nearest : NativeDistances, others : NativeDistances] :
        /\ b.nearest <= b.others
        /\ b.query_raises =>
              b.offset = 0 /\ ~b.backwards /\ b.nearest = 0 /\ b.others = 0}

\* collection.query(n_results = n): the n nearest chunks, nearest first.
QueryNearest(coll, n, b) ==
    LET c == Len(coll)
        at(i) == IF b.backwards
                 THEN ((b.offset + c - i) % c) + 1
                 ELSE ((b.offset + i - 1) % c) + 1
    IN  [i \in 1 .. n |->
            [text |-> coll[at(i)].text, source |-> coll[at(i)].source,
             distance |-> IF i = 1 THEN b.nearest ELSE b.others]]

\* matched_files of _keyword_search (lines 243-249).
MatchedFiles(query) ==
    {KEYWORD_FILE_MAP[kw] :
        kw \in {k \in DOMAIN KEYWORD_FILE_MAP : Contains(Lower(query), k)}}

\* The scan of _keyword_search over all_docs (lines 256-264).
KeywordScan(all_docs, matched_files) ==
    LET hits == SelectSeq(all_docs, LAMBDA d : d.source \in matched_files)
    IN  [i \in DOMAIN hits |->
            [text |-> hits[i].text, source |-> hits[i].source,
             distance |-> KEYWORD_DISTANCE]]

\* The scan of _text_match_search over all_docs (lines 274-284).
TextMatchScan(all_docs, query) ==
    LET hits == SelectSeq(all_docs,
                    LAMBDA d : Contains(Lower(d.text), Lower(query)))
    IN  [i \in DOMAIN hits |->
            [text |-> hits[i].text, source |-> hits[i].source,
             distance |-> EXACT_DISTANCE]]

\* The deduplication key of a result: r["text"][:100].
TextKey(r) == Slice(r.text, 0, KeyLen)

\* A deduplication in which a later result replaces the kept one.
RECURSIVE DedupKeepLast(_, _, _)
DedupKeepLast(rs, seen_texts, combined) ==
    IF rs = <<>> THEN combined
    ELSE IF TextKey(Head(rs)) \in seen_texts
    THEN DedupKeepLast(Tail(rs), seen_texts,
            [i \in DOMAIN combined |->
                IF TextKey(combined[i]) = TextKey(Head(rs))
                THEN Head(rs) ELSE combined[i]])
    ELSE DedupKeepLast(Tail(rs), seen_texts \cup {TextKey(Head(rs))},
                       Append(combined, Head(rs)))

\* The three deduplicating loops (lines 322-344) over the results in the
\* order text, vector, keyword: the first result with a key is kept.
RECURSIVE Dedup(_, _, _)
Dedup(rs, seen_texts, combined) ==
    IF rs = <<>> THEN combined
    ELSE IF TextKey(Head(rs)) \in seen_texts
    THEN Dedup(Tail(rs), seen_texts, combined)
    ELSE Dedup(Tail(rs), seen_texts \cup {TextKey(Head(rs))},
               Append(combined, Head(rs)))

\* combined.sort(key = distance): a stable sort.
RECURSIVE SortByDistance(_)
SortByDistance(rs) ==
    IF rs = <<>> THEN <<>>
    ELSE LET front == SortByDistance(SubSeq(rs, 1, Len(rs) - 1))
             last == rs[Len(rs)]
             keep == Cardinality({i \in DOMAIN front :
                                    front[i].distance <= last.distance})
         IN  SubSeq(front, 1, keep) \o <<last>>
             \o SubSeq(front, keep + 1, Len(front))

\* A result limit of top_k alone.
MaxResultsNoFloor(top_k) == top_k

\* max_results = max(top_k, 10)
MaxResults(top_k) == Max(top_k, MIN_RESULTS)

\* Lines 321-351: merge, sort, truncate.
Fuse(text_results, vector_results, keyword_results, top_k) ==
    LET combined == Dedup(text_results \o vector_results \o keyword_results,
                          {}, <<>>)
    IN  Slice(SortByDistance(combined), 0, MaxResults(top_k))

Search(query, top_k, b) ==
    /\ ret.op = "idle"
    /\ LET call == [RetIdle EXCEPT !.op = "search", !.query = query,
                                   !.top_k = top_k]
           vector_results ==
               IF b.query_raises THEN <<>>
               ELSE QueryNearest(collection, Min(top_k, Len(collection)), b)
           \* _get_all_docs: the cache, filled from the index when unset
           all_docs == IF cache = None THEN collection ELSE cache.docs
           keyword_results == KeywordScan(all_docs, MatchedFiles(query))
           text_results == TextMatchScan(all_docs, query)
       IN  IF Len(collection) = 0
           THEN /\ ret' = call
                /\ cache' = cache
           ELSE IF cache = None /\ b.get_raises
           THEN /\ ret' = [call EXCEPT !.status = "raised"]
                /\ cache' = cache
           ELSE /\ ret' = [call EXCEPT
                             !.vector_results = vector_results,
                             !.keyword_results = keyword_results,
                             !.text_results = text_results,
                             !.out = Fuse(text_results, vector_results,
                                          keyword_results, top_k)]
                /\ cache' = Cached(all_docs)
    /\ UNCHANGED <<collection, chunkerVars>>

\* The caller takes the returned value.
Return ==
    /\ ret.op # "idle"
    /\ ret' = RetIdle
    /\ UNCHANGED <<collection, cache, chunkerVars>>

\* The engine after __init__ on an empty store; no Chunker run is observed.
Init ==
    /\ collection = <<>>
    /\ cache = None
    /\ ret = RetIdle
    /\ text = <<>>
    /\ size = EngineChunkSize
    /\ overlap = EngineChunkOverlap
    /\ start = 0
    /\ chunk_id = 0
    /\ chunks = <<>>
    /\ spans = <<>>
    /\ pc = "done"

\* A call of load_knowledge_base on some content of the directory.
Rebuild ==
    /\ ret.op = "idle"
    /\ \E dir \in Directories : LoadKnowledgeBase(dir)

\* A call of search, the Vector Index behaving in some way.
Query ==
    /\ ret.op = "idle"
    /\ \E query \in Queries, top_k \in TopKs :
          \E b \in Backends(Len(collection)) : Search(query, top_k, b)

Next == Rebuild \/ Query \/ Return

Spec == Init /\ [][Next]_vars

(***************************************************************************)
(* Claims about search and load_knowledge_base (checked under Spec)        *)
(***************************************************************************)

\* A call of search on a non-empty index has returned its list.
Searched == ret.op = "search" /\ ret.status = "ok" /\ Len(collection) > 0

\* The results of the three signals in the order they are merged.
Signals == ret.text_results \o ret.vector_results \o ret.keyword_results
Keys(rs) == {TextKey(rs[i]) : i \in DOMAIN rs}
Produces(rs, r) == \E i \in DOMAIN rs : rs[i].text = r.text
SignalsProducing(r) ==
    Cardinality({n \in 1 .. 3 :
        Produces(<<ret.text_results, ret.vector_results,
                   ret.keyword_results>>[n], r)})
\* The first result with r's key in the merge order.
FirstWithKey(k) ==
    Signals[CHOOSE i \in DOMAIN Signals :
               /\ TextKey(Signals[i]) = k
               /\ \A j \in 1 .. (i - 1) : TextKey(Signals[j]) # k]
NoTwoWithOneKey ==
    \A i, j \in DOMAIN ret.out :
        i # j => TextKey(ret.out[i]) # TextKey(ret.out[j])

\* C1 as stated, a chunk being told from another by its text: no two
\* returned results share a key, and a chunk that two or three signals
\* returned is in the returned list exactly once, with the distance of the
\* first of its signals in the order exact, vector, keyword.
C1_Original ==
    Searched =>
        /\ NoTwoWithOneKey
        /\ \A n \in DOMAIN Signals :
              SignalsProducing(Signals[n]) >= 2 =>
                  /\ Cardinality({i \in DOMAIN ret.out :
                        ret.out[i].text = Signals[n].text}) = 1
                  /\ \A i \in DOMAIN ret.out :
                        ret.out[i].text = Signals[n].text =>
                            ret.out[i].distance =
                                Signals[CHOOSE m \in DOMAIN Signals :
                                    /\ Signals[m].text = Signals[n].text
                                    /\ \A l \in 1 .. (m - 1) :
                                          Signals[l].text # Signals[n].text
                                ].distance

\* C1 as amended: no two returned results share a key; a key that a signal
\* produced is in the returned list at most once, and exactly once when
\* the signals produced at most max(top_k, 10) distinct keys; and the
\* result returned for a key is the first result with that key in the order
\* exact, vector, keyword, with that signal's distance.
C1_Dedup ==
    Searched =>
        /\ NoTwoWithOneKey
        /\ \A k \in Keys(Signals) :
              LET n == Cardinality({i \in DOMAIN ret.out :
                                      TextKey(ret.out[i]) = k})
              IN  /\ n <= 1
                  /\ Cardinality(Keys(Signals)) <= Max(ret.top_k, MIN_RESULTS)
                        => n = 1
        /\ \A i \in DOMAIN ret.out :
              ret.out[i] = FirstWithKey(TextKey(ret.out[i]))

\* C1's case: one chunk came from all three signals and is returned with
\* the exact-match distance, another came from the vector and the keyword
\* signal and is returned with the vector signal's distance.
C1_Witness ==
    /\ Searched
    /\ \E i \in DOMAIN ret.out :
          /\ SignalsProducing(ret.out[i]) = 3
          /\ ret.out[i].distance = EXACT_DISTANCE
    /\ \E i \in DOMAIN ret.out :
          /\ ~Produces(ret.text_results, ret.out[i])
          /\ Produces(ret.vector_results, ret.out[i])
          /\ Produces(ret.keyword_results, ret.out[i])
          /\ ret.out[i].distance \notin {EXACT_DISTANCE, KEYWORD_DISTANCE}

\* A returned result is an exact-match hit; it came from the vector signal
\* alone.
IsExactHit(r) == Contains(Lower(r.text), Lower(ret.query))
IsVectorOnly(r) ==
    /\ ~IsExactHit(r)
    /\ \E i \in DOMAIN ret.vector_results : ret.vector_results[i] = r
    /\ ~Produces(ret.keyword_results, r)

\* C2: every exact-match chunk of the returned list stands before every
\* chunk that only the vector signal returned, whatever its native
\* distance, and when there is an exact-match hit the first position holds
\* one.
C2_ExactFirst ==
    Searched =>
        /\ \A i, j \in DOMAIN ret.out :
              IsExactHit(ret.out[i]) /\ IsVectorOnly(ret.out[j]) => i < j
        /\ ret.text_results # <<>> => IsExactHit(ret.out[1])

\* C3, read in its favour for a file none of whose chunks shares a key
\* with a chunk of another file, and for native distances not below the
\* exact-match distance: when the query contains a keyword whose file has
\* an indexed chunk, the returned list holds a chunk of that file.
C3_KeywordIncluded ==
    Searched =>
        \A kw \in DOMAIN KEYWORD_FILE_MAP :
            LET file == KEYWORD_FILE_MAP[kw]
            IN  ( /\ Contains(Lower(ret.query), kw)
                  /\ \E i \in DOMAIN collection : collection[i].source = file
                  /\ \A i, j \in DOMAIN collection :
                        (collection[i].source = file
                            /\ collection[j].source # file)
                        => TextKey(collection[i]) # TextKey(collection[j])
                  /\ \A i \in DOMAIN ret.vector_results :
                        ret.vector_results[i].distance >= EXACT_DISTANCE )
                => \E i \in DOMAIN ret.out : ret.out[i].source = file

\* C4: the cache is unset or holds the current content of the index, and a
\* rebuild leaves it unset on every path.
C4_CacheFresh ==
    /\ cache = None \/ cache.docs = collection
    /\ ret.op = "load" => cache = None

\* C8: a call of search on a non-empty index never fails, whichever
\* backend call raises.
C8_SearchTolerates ==
    (ret.op = "search" /\ Len(collection) > 0) => ret.status = "ok"

\* The documents of the directory that load_knowledge_base can read.
ReadableMd(dir) == {f \in FileNames : EndsWithMd(f) /\ Readable(dir, f)}
Position(f) == CHOOSE i \in DOMAIN FileOrder : FileOrder[i] = f

\* C9: after load_knowledge_base, whichever documents could not be read,
\* the index holds exactly the chunks of every readable document, the
\* documents in sorted order, files is the number of documents read and
\* chunks the number of chunks in the index.
C9_LoadSkipsFailures ==
    ret.op = "load" =>
        /\ ret.files = Cardinality(ReadableMd(ret.dir))
        /\ ret.chunks = Len(collection)
        /\ \A f \in ReadableMd(ret.dir) :
              SelectSeq(collection, LAMBDA c : c.source = f)
                  = _split_into_chunks(ret.dir[f].content, f)
        /\ \A i \in DOMAIN collection :
              collection[i].source \in ReadableMd(ret.dir)
        /\ \A i, j \in DOMAIN collection :
              i < j => Position(collection[i].source)
                          <= Position(collection[j].source)

\* C9's case: the first document could not be read and a later one was
\* chunked and indexed.
C9_Witness ==
    /\ ret.op = "load"
    /\ \E f, g \in FileNames :
          /\ EndsWithMd(f) /\ EndsWithMd(g)
          /\ Position(f) < Position(g)
          /\ ret.dir[f] = Unreadable
          /\ Readable(ret.dir, g)
    /\ Len(collection) > 1
    /\ ret.files >= 1

\* The precondition of C10's floor: the Keyword Router matched and yielded
\* more than top_k chunks.
KeywordYieldsMore ==
    /\ MatchedFiles(ret.query) # {}
    /\ Len(ret.keyword_results) > ret.top_k

\* C10 as stated, available being the number of different chunk texts the
\* three signals produced.
C10_Original ==
    Searched =>
        /\ Len(ret.out) <= Max(ret.top_k, MIN_RESULTS)
        /\ KeywordYieldsMore =>
              Len(ret.out) >=
                  Min(MIN_RESULTS,
                      Cardinality({Signals[i].text : i \in DOMAIN Signals}))

\* C10 as amended: search returns at most max(top_k, 10) results, and when
\* the Keyword Router matches and yields more than top_k chunks it returns
\* at least min(10, available) results, available being the number of
\* distinct deduplication keys among the results of the three signals.
C10_ResultFloor ==
    Searched =>
        /\ Len(ret.out) <= Max(ret.top_k, MIN_RESULTS)
        /\ KeywordYieldsMore =>
              Len(ret.out) >= Min(MIN_RESULTS, Cardinality(Keys(Signals)))

\* C10's case: top_k is below 10, the Keyword Router yielded more than
\* top_k chunks, more than 10 keys were available and 10 are returned.
C10_Witness ==
    /\ Searched
    /\ ret.top_k < MIN_RESULTS
    /\ KeywordYieldsMore
    /\ Cardinality(Keys(Signals)) > MIN_RESULTS
    /\ Len(ret.out) = MIN_RESULTS

(***************************************************************************)
(* The Chunker, one loop iteration per step, on every text and every       *)
(* configuration within the bounds.                                        *)
(***************************************************************************)

MaxLen == 8
MaxChunkSize == 7
\* Iterations after which a run that has not returned is cut off; a run
\* whose cursor advances needs at most Len(text) iterations.
MaxSteps == MaxLen + 2

\* The texts: a letter, a full stop and the two whitespace characters, at
\* most MaxMarks characters of a text being other than the letter.
MaxMarks == 2
Alphabet == {"a", ".", " ", "\n"}
Texts ==
    {t \in UNION {[1 .. n -> Alphabet] : n \in 0 .. MaxLen} :
        Cardinality({i \in DOMAIN t : t[i] # "a"}) <= MaxMarks}

ChunkSource == "doc.md"

EngineIdle ==
    /\ collection = <<>>
    /\ cache = None
    /\ ret = RetIdle

ChunkInit ==
    /\ EngineIdle
    /\ text \in Texts
    /\ size \in 1 .. MaxChunkSize
    /\ overlap \in 0 .. (size - 1)
    /\ start = 0
    /\ chunk_id = 0
    /\ chunks = <<>>
    /\ spans = <<>>
    /\ pc = "loop"

\* One iteration of the while-loop (lines 141-166).
ChunkStep ==
    /\ pc = "loop"
    /\ start < Len(text)
    /\ Len(spans) < MaxSteps
    /\ LET en == SpanEnd(text, start, size)
           chunk_text == Strip(Slice(text, start, en))
       IN  /\ chunks' = IF chunk_text # <<>>
                        THEN Append(chunks, Chunk(chunk_text, ChunkSource, chunk_id))
                        ELSE chunks
           /\ chunk_id' = IF chunk_text # <<>> THEN chunk_id + 1 ELSE chunk_id
           /\ spans' = Append(spans,
                   [start |-> start, end |-> en,
                    chunk |-> IF chunk_text # <<>> THEN Len(chunks) + 1 ELSE 0])
           /\ start' = NextStart(text, en, overlap)
    /\ UNCHANGED <<text, size, overlap, pc, engineVars>>

\* The loop condition fails and the function returns chunks (line 168).
ChunkReturn ==
    /\ pc = "loop"
    /\ start >= Len(text)
    /\ pc' = "done"
    /\ UNCHANGED <<text, size, overlap, start, chunk_id, chunks, spans, engineVars>>

ChunkNext == ChunkStep \/ ChunkReturn

SpecChunk == ChunkInit /\ [][ChunkNext]_vars

(***************************************************************************)
(* Claims about the Chunker (checked under SpecChunk)                      *)
(***************************************************************************)

\* The configurations in which no snapped span is as short as the overlap:
\* a snapped span is at least CHUNK_SIZE // 2 + 3 characters long.
AdvancingConfig == overlap < Min(size, (size \div 2) + 3)

\* The document characters of span i, span i's chunk text, and the offset
\* of the chunk text inside the document.
SpanText(i) == Slice(text, spans[i].start, spans[i].end)
LeadingSpace(i) == Len(SpanText(i)) - Len(LStrip(SpanText(i)))
Emitted(i) == spans[i].chunk # 0
ChunkText(i) == chunks[spans[i].chunk].text

\* The last k characters of a are the first k characters of b.
TailIsHead(a, b, k) ==
    /\ k <= Len(a)
    /\ k <= Len(b)
    /\ SubSeq(a, Len(a) - k + 1, Len(a)) = SubSeq(b, 1, k)

\* C5 as stated: for every configuration with 0 <= chunk_overlap <
\* chunk_size the cursor start strictly increases on every loop iteration.
C5_Original == [][spans' # spans => start' > start]_vars

\* C5 as amended: for every text and every configuration with
\* 0 <= chunk_overlap < min(chunk_size, chunk_size // 2 + 3) the cursor
\* strictly increases on every loop iteration, and the loop has run fewer
\* than len(text) iterations whenever it goes on: it returns.
C5_CursorAdvances ==
    /\ [][AdvancingConfig /\ spans' # spans => start' > start]_vars
    /\ [](AdvancingConfig /\ pc = "loop" /\ start < Len(text)
            => Len(spans) < Len(text))

\* C5's case: a run that returned after a span was snapped back to a
\* boundary, with a positive overlap.
C5_Witness ==
    /\ pc = "done"
    /\ AdvancingConfig
    /\ overlap > 0
    /\ \E i \in 1 .. Len(spans) :
          /\ spans[i].end < spans[i].start + size
          /\ spans[i].end < Len(text)

\* C6: when the Chunker returns, every character position of the text lies
\* in a span, and every non-whitespace character is, at its place, in the
\* text of an emitted chunk.
C6_Coverage ==
    pc = "done" =>
        \A p \in 1 .. Len(text) :
            /\ \E i \in 1 .. Len(spans) :
                  spans[i].start < p /\ p <= spans[i].end
            /\ text[p] \notin Whitespace =>
                  \E i \in 1 .. Len(spans) :
                      /\ spans[i].start < p /\ p <= spans[i].end
                      /\ Emitted(i)
                      /\ LET j == p - spans[i].start - LeadingSpace(i)
                         IN  /\ j \in 1 .. Len(ChunkText(i))
                             /\ ChunkText(i)[j] = text[p]

\* C6's case: a returned run of several spans, one of them discarded as
\* all whitespace and one of them trimmed.
C6_Witness ==
    /\ pc = "done"
    /\ Len(spans) >= 3
    /\ \E i \in 1 .. Len(spans) : ~Emitted(i)
    /\ \E i \in 1 .. Len(spans) :
          Emitted(i) /\ Len(ChunkText(i)) < Len(SpanText(i))

\* C7 as stated, read in its favour for a positive overlap in a
\* configuration whose cursor advances: each pair of consecutive emitted
\* chunks shares a non-empty region of at most chunk_overlap characters,
\* the tail of the earlier being the head of the later.
C7_Original ==
    (AdvancingConfig /\ overlap > 0) =>
        \A j \in 1 .. (Len(chunks) - 1) :
            \E k \in 1 .. overlap :
                TailIsHead(chunks[j].text, chunks[j + 1].text, k)

\* C7 as amended: for 0 < chunk_overlap < min(chunk_size, chunk_size // 2
\* + 3), each span starts exactly chunk_overlap characters before the end
\* of the span before it, and when those shared characters are not all
\* whitespace the two spans' chunks are both emitted, one right after the
\* other, and share a non-empty region of at most chunk_overlap characters
\* (the tail of the earlier is the head of the later).
C7_Overlap ==
    (AdvancingConfig /\ overlap > 0) =>
        \A i \in 1 .. (Len(spans) - 1) :
            /\ spans[i + 1].start = spans[i].end - overlap
            /\ Strip(Slice(text, spans[i + 1].start, spans[i].end)) # <<>> =>
                  /\ Emitted(i)
                  /\ Emitted(i + 1)
                  /\ spans[i + 1].chunk = spans[i].chunk + 1
                  /\ \E k \in 1 .. overlap :
                        TailIsHead(ChunkText(i), ChunkText(i + 1), k)

\* C7's case: two consecutive emitted chunks whose shared characters hold
\* whitespace that the trimming removed from the earlier chunk.
C7_Witness ==
    /\ pc = "done"
    /\ AdvancingConfig
    /\ overlap > 1
    /\ \E i \in 1 .. (Len(spans) - 1) :
          LET shared == Slice(text, spans[i + 1].start, spans[i].end)
          IN  /\ Strip(shared) # <<>>
              /\ shared[Len(shared)] \in Whitespace
              /\ Emitted(i)
              /\ Emitted(i + 1)
=============================================================================
